---- MODULE Spec2Model ----
(***************************************************************************)
(* Model of the toolkit registration framework (core/tools/toolkit.py) and *)
(* of the SerpApi example plugin (app/tools/serpapi.py).                   *)
(*                                                                         *)
(* The specifications share the variables below:                         *)
(*   Spec      the registry: the @tool and @tool_func decorators,          *)
(*             Toolkit.register and Toolkit.tool, run in any order;        *)
(*   SigSpec   the signature introspection of tool_func.decorator, as a    *)
(*             pure computation over bounded signatures;                   *)
(*   CallSpec  the invocation of a wrapped plugin operation on an          *)
(*             instance (CallFairSpec: run to its end).                    *)
(***************************************************************************)
EXTENDS Integers, Sequences, FiniteSets, TLC

VARIABLES
    tools,          \* Toolkit.__tools: container name -> container record
    raised,         \* exception the last decorator call raised ("None" if none)
    declaredFuncs,  \* history: qualified names whose @tool_func decorator reached Toolkit.register
    toolDecls,      \* history: how often the @tool decorator ran for each class name
    got,            \* the last call, when it was Toolkit.tool: its arguments and what it returned
    func_sig,       \* SigSpec: the signature under introspection
    func_doc,       \* SigSpec: the parsed docstring parameters
    args,           \* SigSpec: the local list `args` of tool_func.decorator
    sigidx,         \* SigSpec: position of the loop in sig.parameters
    sigpc,          \* SigSpec: "idle", "loop", "done" or "raised"
    configuration,  \* CallSpec: self.configuration of the plugin instance
    libInstalled,   \* CallSpec: the serpapi library can be imported
    call,           \* CallSpec: the caller's invocation of a wrapped operation
    stack,          \* CallSpec: the frames of the operation body, innermost last
    result,         \* CallSpec: what the caller's invocation returned or raised
    attempts,       \* CallSpec: wrapper invocations during the caller's invocation
    installs        \* CallSpec: install_package calls during the caller's invocation

vars == <<tools, raised, declaredFuncs, toolDecls, got,
          func_sig, func_doc, args, sigidx, sigpc,
          configuration, libInstalled, call, stack, result, attempts, installs>>

regVars == <<tools, raised, declaredFuncs, toolDecls, got>>
sigVars == <<func_sig, func_doc, args, sigidx, sigpc>>
callVars == <<configuration, libInstalled, call, stack, result, attempts, installs>>

(***************************************************************************)
(* Python values                                                           *)
(***************************************************************************)
\* inspect.Parameter.empty: no annotation / no default declared
ParamEmpty == "<empty>"
\* the object None (it has no __name__ attribute)
NoneObj == "<None>"
\* the empty dict literal {}
EmptyMap == [k \in {} |-> k]

NoError == "None"
NotRegistered == "ValueError: not registered"
AlreadyRegistered == "ValueError: already registered"
AttributeError == "AttributeError"
KeyError == "KeyError"

(***************************************************************************)
(* Signature introspection                                                 *)
(***************************************************************************)
\* _get_json_type_for_py_type(arg)
_get_json_type_for_py_type(arg) ==
    IF arg \in {"int", "float", "complex", "Decimal"} THEN "number"
    ELSE IF arg \in {"str", "string"} THEN "string"
    ELSE IF arg \in {"bool", "boolean"} THEN "boolean"
    ELSE IF arg \in {"NoneType", "None"} THEN "null"
    ELSE IF arg \in {"list", "tuple", "set", "frozenset"} THEN "array"
    ELSE IF arg \in {"dict", "mapping"} THEN "object"
    ELSE "unknown"

\* the loop skips only self
ReservedNames_SelfOnly == {"self"}

\* the parameters the loop skips
ReservedNames == {"self", "_config"}

\* param.annotation.__name__ exists: annotations are classes, named by their
\* __name__, except the object None, which has no such attribute
HasNameAttr(annotation) == annotation # NoneObj

\* the argument handed to _get_json_type_for_py_type
AnnotationArg(annotation) ==
    IF annotation # ParamEmpty THEN annotation ELSE "any"

\* next((p.description for p in parsed.params if p.arg_name == name), "")
DocDescription(params, name) ==
    LET hits == {i \in 1..Len(params) : params[i].arg_name = name}
    IN IF hits = {} THEN ""
       ELSE params[CHOOSE i \in hits : \A j \in hits : i <= j].description

\* Descriptor with `optional` computed from the annotation instead of the default
Descriptor_OptionalFromAnnotation(param, params) ==
    [name        |-> param.name,
     description |-> DocDescription(params, param.name),
     optional    |-> param.annotation # ParamEmpty,
     default     |-> IF param.default # ParamEmpty THEN param.default ELSE NoneObj,
     type        |-> _get_json_type_for_py_type(AnnotationArg(param.annotation))]

\* the dict appended to args for one parameter
Descriptor(param, params) ==
    [name        |-> param.name,
     description |-> DocDescription(params, param.name),
     optional    |-> param.default # ParamEmpty,
     default     |-> IF param.default # ParamEmpty THEN param.default ELSE NoneObj,
     type        |-> _get_json_type_for_py_type(AnnotationArg(param.annotation))]

\* the loop over sig.parameters.items(): the list it builds
RECURSIVE BuildArgs(_, _)
BuildArgs(sig, params) ==
    IF sig = <<>> THEN <<>>
    ELSE IF Head(sig).name \in ReservedNames THEN BuildArgs(Tail(sig), params)
    ELSE <<Descriptor(Head(sig), params)>> \o BuildArgs(Tail(sig), params)

\* the loop raises AttributeError at a non-skipped parameter annotated None
IntrospectRaises(sig) ==
    \E i \in 1..Len(sig) :
        /\ sig[i].name \notin ReservedNames
        /\ sig[i].annotation # ParamEmpty
        /\ ~HasNameAttr(sig[i].annotation)

(***************************************************************************)
(* Registry: Toolkit and the two decorators                                *)
(***************************************************************************)
ClassNames == {"C", "D"}
\* how often one class name is declared with @tool
MaxToolDecls == 2
FuncNames == {"op", "op2"}
\* arguments of a decorator call: the title and the schema (None or a
\* pydantic model); description, icon and category are copied into the
\* record the way title is
DecoratorArgs ==
    {[title |-> "T1", schema |-> "None"], [title |-> "T2", schema |-> "SearchConfig"]}

\* func.__qualname__ split at ".": methods of the top-level classes C and D,
\* and a method of a class C nested in class D
QualNames ==
    {<<"C", "op">>, <<"C", "op2">>, <<"D", "op">>, <<"D", "C", "op2">>}

\* func.__name__
FuncName(qualname) == qualname[Len(qualname)]
\* the class whose body declares the function
EnclosingClass(qualname) == qualname[Len(qualname) - 1]
\* func.__qualname__.split(".")[0]
ToolCls(qualname) == qualname[1]

\* schema.model_json_schema() if schema else None
SchemaJson(schema) == IF schema # "None" THEN <<"json_schema", schema>> ELSE <<"None">>

\* kwargs of tool.decorator
ToolKwargs(name, title, schema) ==
    [id        |-> name,
     title     |-> title,
     functions |-> EmptyMap,
     schema    |-> SchemaJson(schema)]

\* kwargs of tool_func.decorator: "parameters" is the literal {}; the list
\* `args` built by the loop is not used
ToolFuncKwargs(name, title, schema, arglist) ==
    [id         |-> name,
     title      |-> title,
     parameters |-> EmptyMap,
     schema     |-> SchemaJson(schema),
     enabled    |-> TRUE]

\* d[key] = value on a dict
DictSet(d, key, value) ==
    [k \in DOMAIN d \cup {key} |-> IF k = key THEN value ELSE d[k]]

\* RegisterRaises without the test `name in d["functions"]`
RegisterRaises_NoDuplicateTest(t, name, tool_cls) ==
    IF tool_cls # NoneObj /\ tool_cls \notin DOMAIN t THEN NotRegistered ELSE NoError

\* Toolkit.register(name, kwargs, tool_cls): the exception it raises
RegisterRaises(t, name, tool_cls) ==
    IF tool_cls # NoneObj
    THEN IF tool_cls \notin DOMAIN t THEN NotRegistered
         ELSE IF name \in DOMAIN t[tool_cls].functions THEN AlreadyRegistered
         ELSE NoError
    ELSE NoError

\* Register that keeps the record of a container name already registered
Register_KeepsExistingContainer(t, name, kwargs, tool_cls) ==
    IF RegisterRaises(t, name, tool_cls) # NoError THEN t
    ELSE IF tool_cls # NoneObj
    THEN [t EXCEPT ![tool_cls].functions = DictSet(@, name, kwargs)]
    ELSE IF name \in DOMAIN t THEN t
    ELSE DictSet(t, name, kwargs)

\* Register that writes the operation before it tests for a duplicate
Register_WritesBeforeDuplicateTest(t, name, kwargs, tool_cls) ==
    IF RegisterRaises(t, name, tool_cls) = NotRegistered THEN t
    ELSE IF tool_cls # NoneObj
    THEN [t EXCEPT ![tool_cls].functions = DictSet(@, name, kwargs)]
    ELSE DictSet(t, name, kwargs)

\* Toolkit.register(name, kwargs, tool_cls): __tools afterwards
Register(t, name, kwargs, tool_cls) ==
    IF RegisterRaises(t, name, tool_cls) # NoError THEN t
    ELSE IF tool_cls # NoneObj
    THEN [t EXCEPT ![tool_cls].functions = DictSet(@, name, kwargs)]
    ELSE DictSet(t, name, kwargs)

\* Toolkit.tool(_cls, _func): the exception the subscriptions raise
ToolRaises(t, _cls, _func) ==
    IF _cls \notin DOMAIN t THEN KeyError
    ELSE IF _func # NoneObj /\ _func \notin DOMAIN t[_cls].functions THEN KeyError
    ELSE NoError

\* ToolValue without the test of _func: always the container's record
ToolValue_IgnoresFunc(t, _cls, _func) == t[_cls]

\* Toolkit.tool(_cls, _func): the value returned
ToolValue(t, _cls, _func) ==
    IF _func = NoneObj THEN t[_cls] ELSE t[_cls].functions[_func]

\* no value returned
NoValue == [id |-> NoneObj]
\* the last call was not Toolkit.tool
NoLookup == [_cls |-> NoneObj, _func |-> NoneObj, value |-> NoValue]

\* Toolkit.tool(_cls): succeeds
CanGetTool(t, _cls) == _cls \in DOMAIN t
\* Toolkit.tool(_cls, _func): succeeds
CanGetFunc(t, _cls, _func) ==
    /\ _cls \in DOMAIN t
    /\ _func \in DOMAIN t[_cls].functions

\* signatures and docstrings the registry specification decorates
QuerySig ==
    <<[name |-> "self", annotation |-> ParamEmpty, default |-> ParamEmpty],
      [name |-> "query", annotation |-> "str", default |-> ParamEmpty],
      [name |-> "_config", annotation |-> "dict", default |-> ParamEmpty]>>
NoneSig ==
    <<[name |-> "self", annotation |-> ParamEmpty, default |-> ParamEmpty],
      [name |-> "query", annotation |-> NoneObj, default |-> ParamEmpty]>>
RegSigs == {QuerySig, NoneSig}
QueryDoc == <<[arg_name |-> "query", description |-> "The search query string."]>>
RegDocs == {QueryDoc}

\* @tool(schema, title=...) applied to class `name`
ToolDecorator(name, title, schema) ==
    /\ toolDecls[name] < MaxToolDecls
    /\ toolDecls' = [toolDecls EXCEPT ![name] = @ + 1]
    /\ tools' = Register(tools, name, ToolKwargs(name, title, schema), NoneObj)
    /\ raised' = NoError
    /\ got' = NoLookup
    /\ UNCHANGED declaredFuncs
    /\ UNCHANGED <<sigVars, callVars>>

\* @tool_func(schema, title=...) applied to the function `qualname`
ToolFuncDecorator(qualname, sig, doc, title, schema) ==
    LET name == FuncName(qualname)
        tool_cls == ToolCls(qualname)
        kwargs == ToolFuncKwargs(name, title, schema, BuildArgs(sig, doc))
        exc == IF IntrospectRaises(sig) THEN AttributeError
               ELSE RegisterRaises(tools, name, tool_cls)
    IN /\ declaredFuncs' =
              IF exc = AttributeError THEN declaredFuncs ELSE declaredFuncs \cup {qualname}
       /\ UNCHANGED toolDecls
       /\ raised' = exc
       /\ tools' = IF exc = AttributeError THEN tools
                   ELSE Register(tools, name, kwargs, tool_cls)
       /\ got' = NoLookup
       /\ UNCHANGED <<sigVars, callVars>>

\* Toolkit.tool(_cls, _func) called by a reader of the registry
ToolLookup(_cls, _func) ==
    /\ raised' = ToolRaises(tools, _cls, _func)
    /\ got' = [_cls |-> _cls, _func |-> _func,
               value |-> IF ToolRaises(tools, _cls, _func) = NoError
                         THEN ToolValue(tools, _cls, _func) ELSE NoValue]
    /\ UNCHANGED <<tools, declaredFuncs, toolDecls>>
    /\ UNCHANGED <<sigVars, callVars>>

\* a dict of per-operation settings, and the str ""
Dict(items) == [type |-> "dict", items |-> items]
EmptyDict == Dict({})
EmptyStr == [type |-> "str", items |-> {}]

\* the value under configuration["functions"]: the keys it has, the value
\* at its key "config", and for an operation-name key the value at
\* [operation]["config"]
Region(keys, config, opconfig) ==
    [keys |-> keys, config |-> config, opconfig |-> opconfig]
NoOpConfig == [f \in FuncNames |-> EmptyDict]
\* the literal {"config": ""}
DefaultRegion == Region({"config"}, EmptyStr, NoOpConfig)
\* the literal {}
EmptyRegion == Region({}, EmptyDict, NoOpConfig)

\* a configuration dict: the keys it has and the value at "functions"
Configuration(keys, functions) == [keys |-> keys, functions |-> functions]
\* the literal {"config": {}, "functions": {}, "enable": []}
DefaultConfiguration == Configuration({"config", "functions", "enable"}, EmptyRegion)

\* Toolkit.__init__: an empty dict is falsy
ToolkitInit(config_arg) ==
    IF config_arg.keys # {} THEN config_arg ELSE DefaultConfiguration

CallIdle ==
    /\ configuration = DefaultConfiguration
    /\ libInstalled = FALSE
    /\ call = [op |-> "op", nargs |-> 1, kwconfig |-> FALSE]
    /\ stack = <<>>
    /\ result = [kind |-> "pending", value |-> "None"]
    /\ attempts = 0
    /\ installs = 0

SigIdle ==
    /\ func_sig = <<>>
    /\ func_doc = <<>>
    /\ args = <<>>
    /\ sigidx = 1
    /\ sigpc = "idle"

Init ==
    /\ tools = EmptyMap
    /\ raised = NoError
    /\ declaredFuncs = {}
    /\ toolDecls = [c \in ClassNames |-> 0]
    /\ got = NoLookup
    /\ SigIdle
    /\ CallIdle

Next ==
    \/ \E name \in ClassNames, a \in DecoratorArgs :
           ToolDecorator(name, a.title, a.schema)
    \/ \E qualname \in QualNames, sig \in RegSigs, doc \in RegDocs, a \in DecoratorArgs :
           ToolFuncDecorator(qualname, sig, doc, a.title, a.schema)
    \/ \E _cls \in ClassNames, _func \in FuncNames \cup {NoneObj} :
           ToolLookup(_cls, _func)

Spec == Init /\ [][Next]_vars

(***************************************************************************)
(* SigSpec: the loop of tool_func.decorator over one signature             *)
(***************************************************************************)
\* longest signature introspected
MaxParams == 3

\* declared types: none, the object None, builtin classes and a user class
Annotations ==
    {ParamEmpty, NoneObj, "int", "float", "str", "bool", "NoneType", "list", "tuple",
     "set", "dict", "complex", "frozenset", "Custom"}
\* declared defaults: none, None, a value
Defaults == {ParamEmpty, NoneObj, "5"}

\* the parameters a signature is made of
SigParams ==
    {[name |-> "self", annotation |-> ParamEmpty, default |-> ParamEmpty]}
    \cup {[name |-> "_config", annotation |-> a, default |-> d] :
              a \in {"dict", NoneObj}, d \in {ParamEmpty, NoneObj}}
    \cup {[name |-> "query", annotation |-> a, default |-> d] :
              a \in Annotations, d \in Defaults}
    \cup {[name |-> "num", annotation |-> a, default |-> d] :
              a \in {ParamEmpty, "int"}, d \in Defaults}

\* p may follow the parameters of s: its name is new, and a parameter
\* without default never follows one with a default
MayFollow(s, p) ==
    /\ \A i \in 1..Len(s) : s[i].name # p.name
    /\ p.default = ParamEmpty => \A i \in 1..Len(s) : s[i].default = ParamEmpty

\* the signatures of n parameters
RECURSIVE SigsOfLen(_)
SigsOfLen(n) ==
    IF n = 0 THEN {<<>>}
    ELSE {Append(sp[1], sp[2]) :
             sp \in {x \in SigsOfLen(n - 1) \X SigParams : MayFollow(x[1], x[2])}}

Signatures == UNION {SigsOfLen(n) : n \in 0..MaxParams}

\* parsed.params of the docstring
SigDocs == {<<>>, QueryDoc}

SigInit ==
    /\ tools = EmptyMap
    /\ raised = NoError
    /\ declaredFuncs = {}
    /\ toolDecls = [c \in ClassNames |-> 0]
    /\ got = NoLookup
    /\ func_sig \in Signatures
    /\ func_doc \in SigDocs
    /\ args = <<>>
    /\ sigidx = 1
    /\ sigpc = "loop"
    /\ CallIdle

\* `continue` at self and _config
SigSkip ==
    /\ sigpc = "loop"
    /\ sigidx <= Len(func_sig)
    /\ func_sig[sigidx].name \in ReservedNames
    /\ sigidx' = sigidx + 1
    /\ UNCHANGED <<func_sig, func_doc, args, sigpc>>
    /\ UNCHANGED <<regVars, callVars>>

\* args.append({...})
SigAppend ==
    /\ sigpc = "loop"
    /\ sigidx <= Len(func_sig)
    /\ func_sig[sigidx].name \notin ReservedNames
    /\ ~IntrospectRaises(<<func_sig[sigidx]>>)
    /\ args' = Append(args, Descriptor(func_sig[sigidx], func_doc))
    /\ sigidx' = sigidx + 1
    /\ UNCHANGED <<func_sig, func_doc, sigpc>>
    /\ UNCHANGED <<regVars, callVars>>

\* param.annotation.__name__ raises AttributeError
SigRaise ==
    /\ sigpc = "loop"
    /\ sigidx <= Len(func_sig)
    /\ IntrospectRaises(<<func_sig[sigidx]>>)
    /\ sigpc' = "raised"
    /\ UNCHANGED <<func_sig, func_doc, args, sigidx>>
    /\ UNCHANGED <<regVars, callVars>>

\* the loop ends
SigDone ==
    /\ sigpc = "loop"
    /\ sigidx > Len(func_sig)
    /\ sigpc' = "done"
    /\ UNCHANGED <<func_sig, func_doc, args, sigidx>>
    /\ UNCHANGED <<regVars, callVars>>

SigNext == SigSkip \/ SigAppend \/ SigRaise \/ SigDone

SigSpec == SigInit /\ [][SigNext]_vars

(***************************************************************************)
(* Claims about the introspection (checked under SigSpec)                  *)
(***************************************************************************)
\* the declared parameter a descriptor describes
ParamNamed(name) ==
    func_sig[CHOOSE i \in 1..Len(func_sig) : func_sig[i].name = name]

\* C9: a descriptor has optional = true and default = the declared value
\* when its parameter declares a default, and optional = false and
\* default = None when it declares none.
C9_OptionalIffDefaultDeclared ==
    \A i \in 1..Len(args) :
        LET d == args[i]
            param == ParamNamed(d.name)
        IN /\ param.default # ParamEmpty => (d.optional = TRUE /\ d.default = param.default)
           /\ param.default = ParamEmpty => (d.optional = FALSE /\ d.default = NoneObj)

\* C9 witness: a finished introspection produced a descriptor of a
\* parameter with a default and one of a parameter without
C9_Witness ==
    /\ sigpc = "done"
    /\ \E i, j \in 1..Len(args) :
           /\ args[i].optional = FALSE
           /\ ParamNamed(args[i].name).default = ParamEmpty
           /\ args[j].optional = TRUE
           /\ ParamNamed(args[j].name).default = "5"

\* the category the claim gives a declared type
ClaimedCategory(annotation) ==
    IF annotation \in {"int", "float"} THEN "number"
    ELSE IF annotation = "str" THEN "string"
    ELSE IF annotation = "bool" THEN "boolean"
    ELSE IF annotation \in {NoneObj, "NoneType"} THEN "null"
    ELSE IF annotation \in {"list", "tuple", "set"} THEN "array"
    ELSE IF annotation = "dict" THEN "object"
    ELSE "unknown"

\* C10: the mapping from declared type to category never raises and gives
\* number for int and float, string for str, boolean for bool, null for
\* None, array for list, tuple and set, object for dict, and unknown for
\* every other or missing declared type.
C10_TypeMappingTotal ==
    /\ sigpc # "raised"
    /\ \A i \in 1..Len(args) :
           args[i].type = ClaimedCategory(ParamNamed(args[i].name).annotation)

\* the names of the declared parameters other than the receiver and the
\* configuration parameter, in declaration order
RECURSIVE OtherNames(_)
OtherNames(sig) ==
    IF sig = <<>> THEN <<>>
    ELSE IF Head(sig).name \in {"self", "_config"} THEN OtherNames(Tail(sig))
    ELSE <<Head(sig).name>> \o OtherNames(Tail(sig))

\* C11: self and _config never appear in the parameter list, wherever they
\* stand in the declaration, and the list holds every other parameter the
\* loop has passed exactly once, in declaration order.
C11_ReservedParametersExcluded ==
    /\ \A i \in 1..Len(args) : args[i].name \notin {"self", "_config"}
    /\ [i \in 1..Len(args) |-> args[i].name]
           = OtherNames(SubSeq(func_sig, 1, sigidx - 1))

\* C11 witness: a finished introspection of a signature that has _config
\* before, and self after, another parameter produced a non-empty list
C11_Witness ==
    /\ sigpc = "done"
    /\ Len(args) >= 1
    /\ \E i, j, k \in 1..Len(func_sig) :
           /\ i < j /\ j < k
           /\ func_sig[i].name = "_config"
           /\ func_sig[j].name \notin {"self", "_config"}
           /\ func_sig[k].name = "self"

(***************************************************************************)
(* Claims about the registry (checked under Spec)                          *)
(***************************************************************************)
\* the functions declared in the body of the top-level class c whose
\* decorator reached Toolkit.register
DeclaredUnder(c) == {q \in declaredFuncs : Len(q) = 2 /\ EnclosingClass(q) = c}

\* C1: whatever the order of the registrations, once a container (declared
\* once) and the operations declared under it have all been registered, the
\* container's record holds every one of them and get(container, operation)
\* succeeds.
C1_EveryDeclaredOperationRegistered ==
    \A c \in ClassNames :
        toolDecls[c] = 1 =>
            \A q \in DeclaredUnder(c) : CanGetFunc(tools, c, FuncName(q))

\* a tool_func decorator step for `qualname` that reaches Toolkit.register
RegistersFunc(qualname) ==
    \E sig \in RegSigs, doc \in RegDocs, a \in DecoratorArgs :
        /\ ~IntrospectRaises(sig)
        /\ ToolFuncDecorator(qualname, sig, doc, a.title, a.schema)

\* C2: registering an operation name that already exists under a registered
\* container raises the already-registered error to the caller and leaves
\* the registry as it was.
C2_DuplicateOperationRejected ==
    [][\A q \in QualNames :
          (CanGetFunc(tools, ToolCls(q), FuncName(q)) /\ RegistersFunc(q))
              => (raised' = AlreadyRegistered /\ tools' = tools)]_vars

\* C2 witness: a duplicate registration was rejected
C2_Witness ==
    /\ raised = AlreadyRegistered
    /\ \E q \in declaredFuncs : CanGetFunc(tools, ToolCls(q), FuncName(q))

\* C3: the record of an operation declared as op(self, query, _config), with
\* a documented description of query, has a parameters mapping with exactly
\* the entry "query", whose description is the documented text and whose
\* optional flag is false.
C3_ParametersDescribeQuery ==
    \A c \in DOMAIN tools : \A f \in DOMAIN tools[c].functions :
        LET p == tools[c].functions[f].parameters
        IN /\ DOMAIN p = {"query"}
           /\ p["query"].description = QueryDoc[1].description
           /\ p["query"].optional = FALSE

(***************************************************************************)
(* CallSpec: invoking a wrapped operation of the plugin on an instance     *)
(***************************************************************************)
\* deepest nesting of operation bodies
MaxDepth == 3

\* the registry after the plugin class C and its operations op and op2
\* (search_google and search_youtube of SerpApiTool) have been registered
PluginTools ==
    LET t0 == Register(EmptyMap, "C", ToolKwargs("C", "T2", "SearchConfig"), NoneObj)
        t1 == Register(t0, "op", ToolFuncKwargs("op", "T2", "SearchConfig", <<>>), "C")
    IN Register(t1, "op2", ToolFuncKwargs("op2", "T2", "SearchConfig", <<>>), "C")

\* per-operation settings used in instance configurations
Settings(n) == Dict({<<"num_results", n>>})

\* the configuration dicts an instance is constructed with
ConfigArgs ==
    {Configuration({}, EmptyRegion),
     Configuration({"api_key"}, EmptyRegion),
     Configuration({"api_key", "functions"}, EmptyRegion),
     Configuration({"api_key", "functions"}, Region({"config"}, Settings(3), NoOpConfig)),
     Configuration({"api_key", "functions"},
                   Region({"op"}, EmptyDict, [NoOpConfig EXCEPT !["op"] = Settings(5)])),
     Configuration({"api_key", "functions"},
                   Region({"op", "op2"}, EmptyDict,
                          [f \in FuncNames |-> IF f = "op" THEN Settings(5) ELSE Settings(7)])),
     Configuration({"api_key", "functions"},
                   Region({"config", "op"}, Settings(3),
                          [NoOpConfig EXCEPT !["op"] = Settings(5)]))}

\* self.configuration.get("functions", {"config": ""})
GetFunctions(config) ==
    IF "functions" \in config.keys THEN config.functions ELSE DefaultRegion

\* the wrapper's kwargs["_config"]:
\* self.configuration.get("functions", {"config": ""}).get("config", {})
InjectedConfig(config) ==
    LET functions == GetFunctions(config)
    IN IF "config" \in functions.keys THEN functions.config ELSE EmptyDict

\* the binding never fails
BindRaises_KeywordReplacesPositional(nargs) == FALSE

\* func(self, *args, **kwargs) with kwargs["_config"] set: a second
\* positional argument binds _config too and the call raises TypeError
BindRaises(nargs) == nargs >= 2

Pending == [kind |-> "pending", value |-> "None"]
Return(value) == [kind |-> "return", value |-> value]
Raise(exc) == [kind |-> "raise", value |-> exc]

\* a frame of the operation body
Frame(op, pc, config) == [op |-> op, pc |-> pc, _config |-> config]
Top == stack[Len(stack)]
SetPc(pc) == [stack EXCEPT ![Len(stack)].pc = pc]

\* what the caller gets when the innermost body returns `value`: an outer
\* body is past its recursive call in the ImportError handler, which has
\* no return statement
ReturnToCaller(value) == IF Len(stack) = 1 THEN Return(value) ELSE Return("None")

CallInit ==
    /\ tools = PluginTools
    /\ raised = NoError
    /\ declaredFuncs = {<<"C", "op">>, <<"C", "op2">>}
    /\ toolDecls = [c \in ClassNames |-> IF c = "C" THEN 1 ELSE 0]
    /\ got = NoLookup
    /\ SigIdle
    /\ \E config_arg \in ConfigArgs : configuration = ToolkitInit(config_arg)
    /\ libInstalled \in BOOLEAN
    /\ call = [op |-> "op", nargs |-> 1, kwconfig |-> FALSE]
    /\ stack = <<>>
    /\ result = Pending
    /\ attempts = 0
    /\ installs = 0

\* the caller invokes instance.op(...) with nargs positional arguments after
\* self, and _config as a keyword when kwconfig: the wrapper runs
Invoke(op, nargs, kwconfig) ==
    /\ stack = <<>>
    /\ CanGetFunc(tools, "C", op)
    /\ call' = [op |-> op, nargs |-> nargs, kwconfig |-> kwconfig]
    /\ attempts' = 1
    /\ installs' = 0
    /\ IF BindRaises(nargs)
       THEN /\ result' = Raise("TypeError")
            /\ stack' = <<>>
       ELSE /\ result' = Pending
            /\ stack' = <<Frame(op, "try", InjectedConfig(configuration))>>
    /\ UNCHANGED <<configuration, libInstalled>>
    /\ UNCHANGED <<regVars, sigVars>>

\* from serpapi import GoogleSearch / YoutubeSearch
BodyImport ==
    /\ stack # <<>>
    /\ Top.pc = "try"
    /\ stack' = SetPc(IF libInstalled THEN "search" ELSE "except_import")
    /\ UNCHANGED <<configuration, libInstalled, call, result, attempts, installs>>
    /\ UNCHANGED <<regVars, sigVars>>

\* the with-block: _config.get("num_results") raises AttributeError on a
\* str; the backend returns results or raises; `except Exception` turns
\* either exception into {"error": str(e)}
BodySearch(backend) ==
    /\ stack # <<>>
    /\ Top.pc = "search"
    /\ result' = ReturnToCaller(IF Top._config.type # "dict" \/ backend = "raises"
                                THEN "error" ELSE "list")
    /\ stack' = <<>>
    /\ UNCHANGED <<configuration, libInstalled, call, attempts, installs>>
    /\ UNCHANGED <<regVars, sigVars>>

\* except ImportError: install_package("google-search-results"), which
\* returns its flag and never raises
ExceptInstall(flag) ==
    /\ stack # <<>>
    /\ Top.pc = "except_import"
    /\ installs' = installs + 1
    /\ libInstalled' = flag
    /\ stack' = SetPc("reinvoke")
    /\ UNCHANGED <<configuration, call, result, attempts>>
    /\ UNCHANGED <<regVars, sigVars>>

\* self.search_google(query, _config) in the ImportError handler: the
\* wrapper runs again, with two positional arguments; what it raises is
\* raised inside the handler and reaches the caller
ExceptReinvoke ==
    /\ stack # <<>>
    /\ Top.pc = "reinvoke"
    /\ BindRaises(2) \/ Len(stack) < MaxDepth
    /\ attempts' = attempts + 1
    /\ IF BindRaises(2)
       THEN /\ result' = Raise("TypeError")
            /\ stack' = <<>>
       ELSE /\ result' = result
            /\ stack' = Append(SetPc("called"),
                               Frame(Top.op, "try", InjectedConfig(configuration)))
    /\ UNCHANGED <<configuration, libInstalled, call, installs>>
    /\ UNCHANGED <<regVars, sigVars>>

CallStep ==
    \/ BodyImport
    \/ \E backend \in {"returns", "raises"} : BodySearch(backend)
    \/ \E flag \in BOOLEAN : ExceptInstall(flag)
    \/ ExceptReinvoke

CallNext ==
    \/ \E op \in FuncNames, nargs \in 1..2, kwconfig \in BOOLEAN : Invoke(op, nargs, kwconfig)
    \/ CallStep

CallSpec == CallInit /\ [][CallNext]_vars

\* the interpreter runs an invoked operation to its end
CallFairSpec == CallSpec /\ WF_vars(CallStep)

(***************************************************************************)
(* Claims about invocation (checked under CallSpec and CallFairSpec)       *)
(***************************************************************************)
\* C4: the _config an operation body receives is that operation's own entry
\* of the instance's functions region, looked up by the operation's name.
C4_OwnConfigurationInjected ==
    \A i \in 1..Len(stack) :
        ("functions" \in configuration.keys /\ stack[i].op \in configuration.functions.keys)
            => stack[i]._config = configuration.functions.opconfig[stack[i].op]

\* C5: on an instance whose configuration has no functions region, or no
\* entry for the operation in it, the _config the operation body receives
\* is the empty mapping.
C5_AbsentConfigurationIsEmptyMapping ==
    \A i \in 1..Len(stack) :
        ("functions" \notin configuration.keys \/ stack[i].op \notin configuration.functions.keys)
            => stack[i]._config = EmptyDict

\* C6: an invocation with the query and a configuration mapping as
\* positional arguments, op(query, config), does not raise and returns what
\* the operation body returns.
C6_PositionalCallReturnsBodyResult ==
    (attempts >= 1 /\ call.nargs = 2 /\ ~call.kwconfig /\ result # Pending)
        => (result.kind = "return" /\ result.value \in {"list", "error"})

\* C7: every finished invocation op(query) of a plugin operation returned a
\* sequence of results or an {"error": message} record; none raised and
\* none returned anything else.
C7_ListOrErrorRecord ==
    (attempts >= 1 /\ call.nargs = 1 /\ result # Pending)
        => (result.kind = "return" /\ result.value \in {"list", "error"})

\* at most one installation and one re-invocation, and an invocation that
\* found the library missing has ended after exactly one re-invocation
OneRetry ==
    /\ attempts <= 2
    /\ installs <= 1
    /\ Len(stack) <= 2
    /\ (stack = <<>> /\ installs = 1) => attempts = 2

\* C8: an invocation that finds the library missing installs it and
\* re-invokes itself exactly once; every invocation ends, after at most two
\* attempts, also when the installation fails without raising.
C8_OneRetryThenEnd ==
    /\ []OneRetry
    /\ (stack # <<>>) ~> (stack = <<>>)

\* C8 witness: an invocation ended after a failed installation and one
\* re-invocation
C8_Witness ==
    /\ stack = <<>>
    /\ installs = 1
    /\ attempts = 2
    /\ ~libInstalled
    /\ result # Pending

(***************************************************************************)
(* Further claims about the registry (checked under Spec)                  *)
(***************************************************************************)
\* after a call of Toolkit.tool: it raised KeyError exactly when the
\* container, or in the two-argument form the container or the operation,
\* is absent, and otherwise returned the record registered under the name
LookupAnswers ==
    got._cls # NoneObj =>
        LET c == got._cls
            f == got._func
            absent == \/ c \notin DOMAIN tools
                      \/ (f # NoneObj /\ f \notin DOMAIN tools[c].functions)
        IN /\ raised = KeyError <=> absent
           /\ raised = NoError <=> ~absent
           /\ (~absent /\ f = NoneObj) => got.value = tools[c]
           /\ (~absent /\ f # NoneObj) => got.value = tools[c].functions[f]

\* C12: get(container) and get(container, operation) return the record
\* registered under the name, fail with the lookup error exactly when the
\* container or the operation is absent, and never change the registry.
C12_LookupReturnsRegisteredRecord ==
    /\ []LookupAnswers
    /\ [][(\E c \in ClassNames, f \in FuncNames \cup {NoneObj} : ToolLookup(c, f))
             => tools' = tools]_vars

\* C12 witness: a lookup of an operation succeeded and returned its record
C12_Witness ==
    /\ got._cls # NoneObj
    /\ got._func # NoneObj
    /\ raised = NoError
    /\ got.value.id = got._func

\* C13: registering an operation whose container is not registered yet
\* surfaces no error to the caller of the registration.
C13_UnknownContainerNotSurfaced ==
    [][\A q \in QualNames :
          (ToolCls(q) \notin DOMAIN tools /\ RegistersFunc(q)) => raised' = NoError]_vars

\* C14: the registry only grows: every container stays registered with the
\* same id, title and schema, and every operation stays registered under it
\* with the same record, also when the container's name is declared again.
C14_RegistryOnlyGrows ==
    [][\A c \in DOMAIN tools :
          /\ c \in DOMAIN tools'
          /\ tools'[c].id = tools[c].id
          /\ tools'[c].title = tools[c].title
          /\ tools'[c].schema = tools[c].schema
          /\ \A f \in DOMAIN tools[c].functions :
                /\ f \in DOMAIN tools'[c].functions
                /\ tools'[c].functions[f] = tools[c].functions[f]]_vars

\* C15: registering a container under a name that is already registered
\* raises nothing and leaves the newly built record under that name.
C15_ContainerRedeclarationOverwrites ==
    [][\A c \in ClassNames, a \in DecoratorArgs :
          (c \in DOMAIN tools /\ ToolDecorator(c, a.title, a.schema))
              => /\ raised' = NoError
                 /\ c \in DOMAIN tools'
                 /\ tools'[c] = [id |-> c, title |-> a.title, functions |-> EmptyMap,
                                 schema |-> SchemaJson(a.schema)]]_vars

\* C15 witness: a container name was declared a second time, over a record
\* of another title
C15_Witness ==
    \E c \in DOMAIN tools :
        /\ toolDecls[c] = 2
        /\ raised = NoError
        /\ got = NoLookup
        /\ tools[c].title = "T2"
        /\ tools[c].functions = EmptyMap
        /\ \E q \in declaredFuncs : ToolCls(q) = c

\* C16: when a container registers for the first time, every operation
\* whose registration under its name came earlier is in the new record's
\* functions map afterwards.
C16_PendingOperationsDrained ==
    [][\A c \in ClassNames, a \in DecoratorArgs :
          (toolDecls[c] = 0 /\ ToolDecorator(c, a.title, a.schema))
              => \A q \in declaredFuncs :
                    ToolCls(q) = c => FuncName(q) \in DOMAIN tools'[c].functions]_vars

\* C17: an operation that registers is attached to the class that
\* immediately encloses it in its qualified name.
C17_AttachedToEnclosingClass ==
    [][\A q \in QualNames :
          (RegistersFunc(q) /\ raised' = NoError)
              => CanGetFunc(tools', EnclosingClass(q), FuncName(q))]_vars

\* C18: a registration of an operation that fails, because the name is
\* already present in its container or because the container is not
\* registered, leaves the registry as it was.
C18_FailedRegistrationChangesNothing ==
    [][\A q \in QualNames :
          (RegistersFunc(q) /\ raised' \in {NotRegistered, AlreadyRegistered})
              => tools' = tools]_vars

\* C18 witness: a registration failed for an unregistered container while
\* another container holds an operation
C18_Witness ==
    /\ raised = NotRegistered
    /\ got = NoLookup
    /\ \E c \in DOMAIN tools : DOMAIN tools[c].functions # {}
    /\ DOMAIN tools # ClassNames

====
